---- MODULE Spec2Model ----
(***************************************************************************)
(* Model of the authenticated HTTP client of python_utils:                 *)
(*   gcode_utils/utils.py     deep_merge                                   *)
(*   gclient/gclient/client.py  Auth, Client                               *)
(*                                                                         *)
(* Python values are tagged records: None, strings, numbers and dicts, so  *)
(* that truthiness (`not x`), key lookup and isinstance(x, dict) are       *)
(* computed as Python computes them.                                       *)
(***************************************************************************)
EXTENDS Integers, Sequences, FiniteSets, TLC

VARIABLES
    client,     \* Client: [base_api, auth (an Auth is attached), default_headers]
    auth_cfg,   \* Auth: [base_api, endpoint, headers, payload]
    token,      \* Auth.token
    expiry,     \* Auth.expiry
    token_type, \* Auth.token_type
    country,    \* Auth.country
    now,        \* time.time()
    pc,         \* per caller: position inside Client.request / Auth.auth
    frame,      \* per caller: the locals of the running call (method, endpoint,
                \*   headers of Client.request; response of Auth.auth)
    observed,   \* per caller: what is_token_expired() returned to this call
    result,     \* per caller: what the call returned or raised
    wire,       \* per caller: the events of this call, in order
    transport,  \* per caller: the Retry object of the request being sent
    probe       \* a pure function applied to drawn inputs

vars == <<client, auth_cfg, token, expiry, token_type, country, now, pc,
          frame, observed, result, wire, transport, probe>>

authState == <<token, expiry, token_type, country>>

(***************************************************************************)
(* Bounds                                                                  *)
(***************************************************************************)
MaxTime == 1
MaxScalar == 2

Callers == {"c1", "c2"}

(***************************************************************************)
(* Python values                                                           *)
(***************************************************************************)
None == [none |-> TRUE]
PyStr(s) == [s |-> s]
PyNum(n) == [n |-> n]
PyDict(f) == [d |-> f]

IsNone(v) == "none" \in DOMAIN v
IsStr(v) == "s" \in DOMAIN v
IsNum(v) == "n" \in DOMAIN v
IsDict(v) == "d" \in DOMAIN v

\* Python truth value testing: None, "", 0 and {} are false.
Truthy(v) ==
    IF IsNone(v) THEN FALSE
    ELSE IF IsStr(v) THEN v.s # ""
    ELSE IF IsNum(v) THEN v.n # 0
    ELSE DOMAIN v.d # {}

\* str.format of a value inside an f-string.
Format(v) == IF IsNone(v) THEN "None" ELSE v.s

\* `key in d` for a dict d.
HasKey(dict, key) == key \in DOMAIN dict.d

EmptyDict == PyDict(<<>>)

(***************************************************************************)
(* gcode_utils.deep_merge                                                  *)
(***************************************************************************)
RECURSIVE deep_merge(_, _)

\* deep_merge with the first operand winning where both hold a value.
deep_merge_left_biased(dict1, dict2) ==
    IF ~Truthy(dict1) /\ ~Truthy(dict2) THEN None
    ELSE IF ~Truthy(dict1) THEN dict2
    ELSE IF ~Truthy(dict2) THEN dict1
    ELSE PyDict([key \in (DOMAIN dict1.d) \cup (DOMAIN dict2.d) |->
            IF key \in DOMAIN dict1.d
            THEN IF /\ key \in DOMAIN dict2.d
                    /\ IsDict(dict1.d[key])
                    /\ IsDict(dict2.d[key])
                 THEN deep_merge(dict1.d[key], dict2.d[key])
                 ELSE dict1.d[key]
            ELSE dict2.d[key]])

deep_merge(dict1, dict2) ==
    IF ~Truthy(dict1) /\ ~Truthy(dict2) THEN None
    ELSE IF ~Truthy(dict1) THEN dict2
    ELSE IF ~Truthy(dict2) THEN dict1
    ELSE PyDict([key \in (DOMAIN dict1.d) \cup (DOMAIN dict2.d) |->
            IF key \in DOMAIN dict2.d
            THEN IF /\ key \in DOMAIN dict1.d
                    /\ IsDict(dict1.d[key])
                    /\ IsDict(dict2.d[key])
                 THEN deep_merge(dict1.d[key], dict2.d[key])
                 ELSE dict2.d[key]
            ELSE dict1.d[key]])

(***************************************************************************)
(* Auth                                                                    *)
(***************************************************************************)
\* is_token_expired with the boundary on the wrong side: valid while expiry >= now.
is_token_expired_inclusive(tok, exp, t) ==
    IF ~Truthy(tok) \/ ~Truthy(exp) THEN TRUE
    ELSE ~(exp.n >= t)

is_token_expired(tok, exp, t) ==
    IF ~Truthy(tok) \/ ~Truthy(exp) THEN TRUE
    ELSE ~(exp.n > t)

\* get_auth with the two parts in the wrong order.
get_auth_swapped(tt, tok) == Format(tok) \o " " \o Format(tt)

get_auth(tt, tok) == Format(tt) \o " " \o Format(tok)

(***************************************************************************)
(* The Retry policy mounted on the session by Client.__setup_session:      *)
(* Retry(total=15, backoff_factor=0.2, status_forcelist=[...]), every      *)
(* other parameter at urllib3's default.                                   *)
(***************************************************************************)
\* total: the number of retries allowed after the first attempt.
retry_total == 15

\* backoff_factor, in tenths of a second.
backoff_factor == 2

status_forcelist == {429, 500, 502, 503, 504}

\* Retry.DEFAULT_ALLOWED_METHODS: the methods a status retry applies to.
allowed_methods == {"HEAD", "GET", "PUT", "DELETE", "OPTIONS", "TRACE"}

\* Retry.is_retry for a response that carries no Retry-After header.
is_retry(verb, status) == verb \in allowed_methods /\ status \in status_forcelist

RECURSIVE Pow2(_)
Pow2(n) == IF n = 0 THEN 1 ELSE 2 * Pow2(n - 1)

Min(a, b) == IF a <= b THEN a ELSE b

\* Retry.get_backoff_time after `errors` consecutive failed attempts, in tenths
\* of a second (capped at DEFAULT_BACKOFF_MAX, 120 s).
get_backoff_time(errors) ==
    IF errors <= 1 THEN 0 ELSE Min(120 * 10, backoff_factor * Pow2(errors - 1))

(***************************************************************************)
(* Inputs                                                                  *)
(***************************************************************************)
BaseApi == PyStr("https://api.example.com")
AuthEndpoint == PyStr("/auth/token")
DefaultHeaders == PyDict([Accept |-> PyStr("application/json")])
AuthHeaders == PyDict([Authorization |-> PyStr("Basic dXNlcjpwdw==")])
AuthPayload == PyDict([grant_type |-> PyStr("client_id")])

NoAuthCfg == [base_api |-> None, endpoint |-> None, headers |-> None, payload |-> None]

Methods == {"get", "post", "delete"}
Endpoints == {None, PyStr(""), PyStr("/v1/data")}
CallerHeaders ==
    { None,
      PyDict([Range |-> PyStr("0-9")]),
      PyDict([Authorization |-> PyStr("Basic mine"), Range |-> PyStr("0-9")]) }

\* Bodies the auth endpoint can answer with (the result of .json()).
FullResponse1 ==
    PyDict([access_token |-> PyStr("t1"), expires_in |-> PyNum(1),
            token_type |-> PyStr("Bearer"), country |-> PyStr("IT")])
FullResponse2 ==
    PyDict([access_token |-> PyStr("t2"), expires_in |-> PyNum(0),
            token_type |-> PyStr("MAC"), country |-> PyStr("US")])
PartialResponse ==
    PyDict([access_token |-> PyStr("t2"), expires_in |-> PyNum(1)])
ErrorResponse == PyDict([error |-> PyStr("invalid_grant")])
Responses == {FullResponse1, FullResponse2, PartialResponse, ErrorResponse, EmptyDict}

\* Status codes the service can answer an attempt with.
Statuses == {200, 404, 503}

\* Overrides a direct caller of Auth.auth can pass.
OverrideHeaders == {None, EmptyDict, PyDict([Accept |-> PyStr("text/plain")])}
OverridePayloads == {None, EmptyDict, PyDict([grant_type |-> PyStr("refresh_token")])}

(***************************************************************************)
(* What a call returns or raises                                           *)
(***************************************************************************)
Pending == "pending"
RaiseMissingBaseApi == "raise Exception: Missing url base api"
RaiseMissingEndpoint == "raise Exception: Missing endpoint"
RaiseMissingAuthBaseApi == "raise Exception: Missing auth url base api"
RaiseMissingAuthEndpoint == "raise Exception: Missing auth endpoint"
RaiseAuthError == "raise Exception: An error occurred during auth"
RaiseKeyError == "raise KeyError"
ReturnResponse == "return Response"
ReturnNone == "return None"
ReturnAuthResponse == "return response"
RaiseRetryError == "raise requests.exceptions.RetryError"

\* No call is running: there are no locals.
NoFrame == [method |-> None, endpoint |-> None, headers |-> None, response |-> None]

\* No request is with the transport.
NoTransport == [method |-> "", total |-> 0, history |-> <<>>, sleeps |-> <<>>]

NoProbe == [op |-> "none"]

(***************************************************************************)
(* Initial state: a constructed Client, with or without an Auth            *)
(***************************************************************************)
InitCallers ==
    /\ pc = [c \in Callers |-> "idle"]
    /\ frame = [c \in Callers |-> NoFrame]
    /\ observed = [c \in Callers |-> "none"]
    /\ result = [c \in Callers |-> Pending]
    /\ wire = [c \in Callers |-> <<>>]
    /\ transport = [c \in Callers |-> NoTransport]

InitAuthState ==
    /\ token = None
    /\ expiry = None
    /\ token_type = None
    /\ country = None

Init ==
    /\ \E b \in {None, BaseApi}, a \in BOOLEAN :
          client = [base_api |-> b, auth |-> a, default_headers |-> DefaultHeaders]
    /\ IF client.auth
       THEN \E b \in {None, BaseApi}, e \in {None, AuthEndpoint} :
               auth_cfg = [base_api |-> b, endpoint |-> e,
                           headers |-> AuthHeaders, payload |-> AuthPayload]
       ELSE auth_cfg = NoAuthCfg
    /\ InitAuthState
    /\ now = 0
    /\ InitCallers
    /\ probe = NoProbe

(***************************************************************************)
(* Steps of one call.  A caller is a thread of control sharing the Client; *)
(* a call is cut where it blocks on the network and between the four       *)
(* attribute writes of Auth.auth, which is where another caller can run.   *)
(***************************************************************************)
Goto(c, label) == pc' = [pc EXCEPT ![c] = label]

\* The call returns or raises: its result is with the caller, its locals are gone.
Finish(c, outcome) ==
    /\ pc' = [pc EXCEPT ![c] = "done"]
    /\ result' = [result EXCEPT ![c] = outcome]
    /\ frame' = [frame EXCEPT ![c] = NoFrame]

Log(c, event) == wire' = [wire EXCEPT ![c] = Append(@, event)]

Url(base, path) == base.s \o path.s

\* What the controller holds, as the state machine of the token names it.
TokenValid(tok, exp, t) ==
    /\ ~IsNone(tok) /\ tok # PyStr("")
    /\ ~IsNone(exp)
    /\ exp.n > t

AuthStateKind ==
    IF token = None /\ expiry = None /\ token_type = None /\ country = None
    THEN "Unauthenticated"
    ELSE IF TokenValid(token, expiry, now) THEN "Valid" ELSE "Expired"

\* First event of a call: its arguments and the controller's state at entry.
Called(m, e, h) ==
    [ev |-> "call", method |-> m, endpoint |-> e, headers |-> h,
     state |-> AuthStateKind]

\* An attribute write of Auth.auth, and whether it changed the attribute.
Wrote(field, old, new) ==
    [ev |-> "set", field |-> field, value |-> new, changed |-> (new # old)]

\* Client.request taking the Auth path whether or not an Auth is attached.
HasAuthAlways == TRUE

\* Line 167, `if self.auth:`.
HasAuth == client.auth

\* Line 162, `if not self.base_api:`.
MissingBaseApi == ~Truthy(client.base_api)

\* The endpoint check as `endpoint is None`: an empty endpoint passes.
MissingEndpointNoneOnly(e) == IsNone(e)

\* Line 164, `elif not endpoint:`.
MissingEndpoint(e) == ~Truthy(e)

\* Client.request refreshing on every call.
NeedsRefreshAlways == TRUE

\* Line 168, `if self.auth.is_token_expired():`.
NeedsRefresh == is_token_expired(token, expiry, now)

\* Client.request not waiting for Auth.auth: the exchange is sent and the call goes on.
AuthEnterNoWait(c, m, e, h) ==
    /\ Goto(c, "merge")
    /\ frame' = [frame EXCEPT ![c] =
          [method |-> PyStr(m), endpoint |-> e, headers |-> h, response |-> None]]
    /\ wire' = [wire EXCEPT ![c] =
          <<Called(m, e, h),
            [ev |-> "exchange",
             url |-> Format(auth_cfg.base_api) \o Format(auth_cfg.endpoint),
             headers |-> auth_cfg.headers,
             data |-> auth_cfg.payload]>>]
    /\ UNCHANGED result

ExchangeHeadersNotNone(headers) ==
    IF ~IsNone(headers) THEN headers ELSE auth_cfg.headers

\* headers=headers if headers else self.headers
ExchangeHeaders(headers) ==
    IF Truthy(headers) THEN headers ELSE auth_cfg.headers

\* data=payload if payload else self.payload
ExchangeData(payload) ==
    IF Truthy(payload) THEN payload ELSE auth_cfg.payload

\* The token-exchange POST of Auth.auth(session, headers, payload).
Exchange(headers, payload) ==
    [ev |-> "exchange",
     url |-> Url(auth_cfg.base_api, auth_cfg.endpoint),
     headers |-> ExchangeHeaders(headers),
     data |-> ExchangeData(payload)]

\* First event of a direct call of Auth.auth.
AuthCalled(headers, payload) ==
    [ev |-> "auth_call", headers |-> headers, payload |-> payload,
     state |-> AuthStateKind]

\* Auth.auth called by the application itself, with optional overrides, up to
\* session.post(...).  The frame holds no request: the call ends when the
\* response is stored.
AuthAuth(c, headers, payload) ==
    /\ pc[c] = "idle"
    /\ \A other \in Callers : pc[other] = "idle"
    /\ client.auth
    /\ observed' = [observed EXCEPT ![c] = "direct"]
    /\ IF ~Truthy(auth_cfg.base_api)
       THEN /\ Finish(c, RaiseMissingAuthBaseApi)
            /\ wire' = [wire EXCEPT ![c] = <<AuthCalled(headers, payload)>>]
       ELSE IF ~Truthy(auth_cfg.endpoint)
       THEN /\ Finish(c, RaiseMissingAuthEndpoint)
            /\ wire' = [wire EXCEPT ![c] = <<AuthCalled(headers, payload)>>]
       ELSE /\ Goto(c, "auth_wait")
            /\ frame' = [frame EXCEPT ![c] = NoFrame]
            /\ wire' = [wire EXCEPT ![c] =
                  <<AuthCalled(headers, payload), Exchange(headers, payload)>>]
            /\ UNCHANGED result
    /\ UNCHANGED <<client, auth_cfg, authState, now, probe, transport>>

\* Auth.auth up to session.post(...): the two configuration checks, then the
\* token-exchange POST is on the wire and the caller blocks on it.
AuthEnter(c, m, e, h) ==
    IF ~Truthy(auth_cfg.base_api)
    THEN /\ Finish(c, RaiseMissingAuthBaseApi)
         /\ wire' = [wire EXCEPT ![c] = <<Called(m, e, h)>>]
    ELSE IF ~Truthy(auth_cfg.endpoint)
    THEN /\ Finish(c, RaiseMissingAuthEndpoint)
         /\ wire' = [wire EXCEPT ![c] = <<Called(m, e, h)>>]
    ELSE /\ Goto(c, "auth_wait")
         /\ frame' = [frame EXCEPT ![c] =
               [method |-> PyStr(m), endpoint |-> e, headers |-> h, response |-> None]]
         /\ wire' = [wire EXCEPT ![c] =
               <<Called(m, e, h), Exchange(None, None)>>]
         /\ UNCHANGED result

\* Client.request from its entry to the first point where it blocks.
Request(c, m, e, h) ==
    /\ pc[c] = "idle"
    /\ IF MissingBaseApi
       THEN /\ Finish(c, RaiseMissingBaseApi)
            /\ wire' = [wire EXCEPT ![c] = <<Called(m, e, h)>>]
            /\ UNCHANGED observed
       ELSE IF MissingEndpoint(e)
       THEN /\ Finish(c, RaiseMissingEndpoint)
            /\ wire' = [wire EXCEPT ![c] = <<Called(m, e, h)>>]
            /\ UNCHANGED observed
       ELSE IF ~HasAuth
       THEN /\ Goto(c, "send")
            /\ frame' = [frame EXCEPT ![c] =
                  [method |-> PyStr(m), endpoint |-> e, headers |-> h, response |-> None]]
            /\ wire' = [wire EXCEPT ![c] = <<Called(m, e, h)>>]
            /\ observed' = [observed EXCEPT ![c] = "noauth"]
            /\ UNCHANGED result
       ELSE IF NeedsRefresh
       THEN /\ observed' = [observed EXCEPT ![c] = "expired"]
            /\ AuthEnter(c, m, e, h)
       ELSE /\ observed' = [observed EXCEPT ![c] = "valid"]
            /\ Goto(c, "merge")
            /\ frame' = [frame EXCEPT ![c] =
                  [method |-> PyStr(m), endpoint |-> e, headers |-> h, response |-> None]]
            /\ wire' = [wire EXCEPT ![c] = <<Called(m, e, h)>>]
            /\ UNCHANGED result
    /\ UNCHANGED <<client, auth_cfg, authState, now, probe, transport>>

\* session.post(...).json() returns, then the "error" check.
AuthResponse(c, r) ==
    /\ pc[c] = "auth_wait"
    /\ IF HasKey(r, "error")
       THEN Finish(c, RaiseAuthError)
       ELSE /\ frame' = [frame EXCEPT ![c].response = r]
            /\ Goto(c, "set_token")
            /\ UNCHANGED result
    /\ UNCHANGED <<client, auth_cfg, authState, now, observed, wire, probe, transport>>

\* self.token = response["access_token"]
SetToken(c) ==
    /\ pc[c] = "set_token"
    /\ IF HasKey(frame[c].response, "access_token")
       THEN /\ token' = frame[c].response.d["access_token"]
            /\ Log(c, Wrote("token", token, token'))
            /\ Goto(c, "set_expiry")
            /\ UNCHANGED <<result, frame>>
       ELSE Finish(c, RaiseKeyError) /\ UNCHANGED <<token, wire>>
    /\ UNCHANGED <<client, auth_cfg, expiry, token_type, country, now,
                   observed, probe, transport>>

\* self.expiry = time.time() + response["expires_in"]
SetExpiry(c) ==
    /\ pc[c] = "set_expiry"
    /\ IF HasKey(frame[c].response, "expires_in")
       THEN /\ expiry' = PyNum(now + frame[c].response.d["expires_in"].n)
            /\ Log(c, Wrote("expiry", expiry, expiry'))
            /\ Goto(c, "set_token_type")
            /\ UNCHANGED <<result, frame>>
       ELSE Finish(c, RaiseKeyError) /\ UNCHANGED <<expiry, wire>>
    /\ UNCHANGED <<client, auth_cfg, token, token_type, country, now,
                   observed, probe, transport>>

\* self.token_type = response["token_type"]
SetTokenType(c) ==
    /\ pc[c] = "set_token_type"
    /\ IF HasKey(frame[c].response, "token_type")
       THEN /\ token_type' = frame[c].response.d["token_type"]
            /\ Log(c, Wrote("token_type", token_type, token_type'))
            /\ Goto(c, "set_country")
            /\ UNCHANGED <<result, frame>>
       ELSE Finish(c, RaiseKeyError) /\ UNCHANGED <<token_type, wire>>
    /\ UNCHANGED <<client, auth_cfg, token, expiry, country, now,
                   observed, probe, transport>>

\* self.country = response["country"]; return response
SetCountry(c) ==
    /\ pc[c] = "set_country"
    /\ IF HasKey(frame[c].response, "country")
       THEN /\ country' = frame[c].response.d["country"]
            /\ wire' = [wire EXCEPT ![c] =
                  @ \o <<Wrote("country", country, country'), [ev |-> "exchange_done"]>>]
            /\ IF IsNone(frame[c].method)
               THEN Finish(c, ReturnAuthResponse)
               ELSE /\ Goto(c, "merge")
                    /\ frame' = [frame EXCEPT ![c].response = None]
                    /\ UNCHANGED result
       ELSE Finish(c, RaiseKeyError) /\ UNCHANGED <<country, wire>>
    /\ UNCHANGED <<client, auth_cfg, token, expiry, token_type, now,
                   observed, probe, transport>>

MergedHeadersAuthWins(headers) ==
    deep_merge(headers, PyDict([Authorization |-> PyStr(get_auth(token_type, token))]))

\* deep_merge({"Authorization": self.auth.get_auth()}, headers)
MergedHeaders(headers) ==
    deep_merge(PyDict([Authorization |-> PyStr(get_auth(token_type, token))]), headers)

\* headers = deep_merge({"Authorization": self.auth.get_auth()}, headers)
Merge(c) ==
    /\ pc[c] = "merge"
    /\ frame' = [frame EXCEPT ![c].headers = MergedHeaders(@)]
    /\ Log(c, [ev |-> "get_auth", value |-> get_auth(token_type, token),
                valid |-> TokenValid(token, expiry, now)])
    /\ Goto(c, "send")
    /\ UNCHANGED <<client, auth_cfg, authState, now, observed, result, probe, transport>>

Sent(c, verb) ==
    [ev |-> "send", verb |-> verb,
     url |-> Url(client.base_api, frame[c].endpoint),
     headers |-> frame[c].headers]

\* The dispatch on `method`: session.post or session.get hands the request to
\* the adapter mounted for https://, with a fresh copy of the Retry policy;
\* any other method returns None.
Dispatch(c, verb) ==
    /\ Log(c, Sent(c, verb))
    /\ Goto(c, "transport")
    /\ transport' = [transport EXCEPT ![c] =
          [method |-> verb, total |-> retry_total, history |-> <<>>, sleeps |-> <<>>]]
    /\ UNCHANGED <<frame, result>>

Send(c) ==
    /\ pc[c] = "send"
    /\ IF frame[c].method = PyStr("post")
       THEN Dispatch(c, "POST")
       ELSE IF frame[c].method = PyStr("get")
       THEN Dispatch(c, "GET")
       ELSE Finish(c, ReturnNone) /\ UNCHANGED <<wire, transport>>
    /\ UNCHANGED <<client, auth_cfg, authState, now, observed, probe>>

\* One attempt of the adapter: the request goes out and a response with
\* `status` comes back.  A status the policy retries is counted against
\* `total` (Retry.increment); below zero the policy is exhausted and the
\* caller gets RetryError, otherwise the adapter sleeps the backoff and tries
\* again.  Any other response is returned to the caller.
Attempt(c, status) ==
    /\ pc[c] = "transport"
    /\ LET t == transport[c]
           seen == Append(t.history, status)
       IN  IF is_retry(t.method, status)
           THEN IF t.total - 1 < 0
                THEN /\ transport' = [transport EXCEPT ![c] =
                           [t EXCEPT !.total = t.total - 1, !.history = seen]]
                     /\ Finish(c, RaiseRetryError)
                ELSE /\ transport' = [transport EXCEPT ![c] =
                           [t EXCEPT !.total = t.total - 1, !.history = seen,
                                     !.sleeps = Append(@, get_backoff_time(Len(seen)))]]
                     /\ UNCHANGED <<pc, frame, result>>
           ELSE /\ transport' = [transport EXCEPT ![c].history = seen]
                /\ Finish(c, ReturnResponse)
    /\ UNCHANGED <<client, auth_cfg, authState, now, observed, wire, probe>>

\* The caller has taken its result; it can call again.
Return(c) ==
    /\ pc[c] = "done"
    /\ pc' = [pc EXCEPT ![c] = "idle"]
    /\ observed' = [observed EXCEPT ![c] = "none"]
    /\ result' = [result EXCEPT ![c] = Pending]
    /\ wire' = [wire EXCEPT ![c] = <<>>]
    /\ transport' = [transport EXCEPT ![c] = NoTransport]
    /\ UNCHANGED <<client, auth_cfg, authState, now, frame, probe>>

\* time.time() advances.
Tick ==
    /\ now < MaxTime
    /\ now' = now + 1
    /\ UNCHANGED <<client, auth_cfg, authState, pc, frame, observed, result,
                   wire, probe, transport>>

\* Callers on one event loop: Client.request holds no await that suspends it, so
\* a call runs to its end before the next one starts.
RequestAlone(c, m, e, h) ==
    /\ \A other \in Callers : pc[other] = "idle"
    /\ Request(c, m, e, h)

Next ==
    \/ \E c \in Callers, h \in OverrideHeaders, p \in OverridePayloads : AuthAuth(c, h, p)
    \/ \E c \in Callers, m \in Methods, e \in Endpoints, h \in CallerHeaders :
          RequestAlone(c, m, e, h)
    \/ \E c \in Callers, r \in Responses : AuthResponse(c, r)
    \/ \E c \in Callers : SetToken(c)
    \/ \E c \in Callers : SetExpiry(c)
    \/ \E c \in Callers : SetTokenType(c)
    \/ \E c \in Callers : SetCountry(c)
    \/ \E c \in Callers : Merge(c)
    \/ \E c \in Callers : Send(c)
    \/ \E c \in Callers, status \in Statuses : Attempt(c, status)
    \/ \E c \in Callers : Return(c)
    \/ Tick

Spec == Init /\ [][Next]_vars

\* Callers that are threads sharing the Client (each driving its own event
\* loop): their calls interleave at every step.  Each issues get("/v1/data").
RequestThread(c) == Request(c, "get", PyStr("/v1/data"), None)

InitThreads ==
    /\ client = [base_api |-> BaseApi, auth |-> TRUE, default_headers |-> DefaultHeaders]
    /\ auth_cfg = [base_api |-> BaseApi, endpoint |-> AuthEndpoint,
                   headers |-> AuthHeaders, payload |-> AuthPayload]
    /\ InitAuthState
    /\ now = 0
    /\ InitCallers
    /\ probe = NoProbe

\* The auth endpoint answers the threads with a complete body or an error.
ThreadResponses == {FullResponse1, FullResponse2, ErrorResponse}

NextThreads ==
    \/ \E c \in Callers : RequestThread(c)
    \/ \E c \in Callers, r \in ThreadResponses : AuthResponse(c, r)
    \/ \E c \in Callers : SetToken(c)
    \/ \E c \in Callers : SetExpiry(c)
    \/ \E c \in Callers : SetTokenType(c)
    \/ \E c \in Callers : SetCountry(c)
    \/ \E c \in Callers : Merge(c)
    \/ \E c \in Callers : Send(c)
    \/ \E c \in Callers : Attempt(c, 200)
    \/ \E c \in Callers : Return(c)
    \/ Tick

SpecThreads == InitThreads /\ [][NextThreads]_vars

(***************************************************************************)
(* The pure functions, applied to inputs drawn from bounded sets           *)
(***************************************************************************)
Scalars == {PyNum(n) : n \in 1..MaxScalar}

\* Every dict with keys among K and values among V.
DictsOver(K, V) == {PyDict(f) : f \in UNION {[S -> V] : S \in SUBSET K}}

InnerDicts == DictsOver({"x", "y"}, Scalars)
OuterDicts == DictsOver({"a", "b"}, Scalars \cup InnerDicts)

Example1 == PyDict([a |-> PyDict([x |-> PyNum(1), y |-> PyNum(2)])])
Example2 == PyDict([a |-> PyDict([y |-> PyNum(3), z |-> PyNum(4)])])
ExampleMerged == PyDict([a |-> PyDict([x |-> PyNum(1), y |-> PyNum(3), z |-> PyNum(4)])])

MergeArgs == OuterDicts \cup {None, Example1, Example2}

Tokens == {None, PyStr(""), PyStr("t1")}
Expiries == {None} \cup {PyNum(n) : n \in -1..(MaxTime + 1)}
Times == 0..MaxTime

(***************************************************************************)
(* SSLCiphers.__init__.  A cipher string is a tuple of its pieces, so that *)
(* `"@SECLEVEL" in cipher_list` and `+=` are computed on the text itself.  *)
(***************************************************************************)
PyText(pieces) == [t |-> pieces]
IsText(v) == "t" \in DOMAIN v

Contains(text, sub) ==
    \E i \in 1..(Len(text) - Len(sub) + 1) : SubSeq(text, i, i + Len(sub) - 1) = sub

SecLevelDirective == <<"@", "SECLEVEL">>

\* f"{security_level}" for the levels that reach the f-string.
IntStr(n) == <<"0", "1", "2", "3", "4", "5", "6", "7", "8", "9">>[n + 1]

\* `if cipher_list:` / `if not cipher_list:`
CipherListGiven(cipher_list) ==
    IF IsText(cipher_list) THEN cipher_list.t # <<>> ELSE Truthy(cipher_list)

ValidSecurityLevelUpTo6(n) == n \in 0..6

\* security_level in range(6)
ValidSecurityLevel(n) == n \in 0..5

Raises(error) == [raised |-> error, ciphers |-> None, ctx |-> FALSE]

SSLCiphers(cipher_list, security_level) ==
    IF CipherListGiven(cipher_list) /\ ~IsText(cipher_list)
    THEN Raises("TypeError")
    ELSE IF CipherListGiven(cipher_list) /\ Contains(cipher_list.t, SecLevelDirective)
    THEN Raises("ValueError")
    ELSE IF ~IsNum(security_level)
    THEN Raises("TypeError")
    ELSE IF ~ValidSecurityLevel(security_level.n)
    THEN Raises("ValueError")
    ELSE LET given == IF CipherListGiven(cipher_list) THEN cipher_list.t ELSE <<"DEFAULT">>
         IN  [raised |-> "",
              ciphers |-> PyText(given \o <<":">> \o SecLevelDirective
                                 \o <<"=", IntStr(security_level.n)>>),
              ctx |-> TRUE]

CipherLists ==
    { None, PyNum(5), PyText(<<>>),
      PyText(<<"HIGH", ":", "!aNULL">>),
      PyText(<<"@", "STRENGTH">>),
      PyText(<<"HIGH", ":", "@", "SECLEVEL", "=", "1">>) }

SecurityLevels == {PyNum(n) : n \in -2..8} \cup {PyStr("2")}

ProbeInputs ==
    {[op |-> "SSLCiphers", cipher_list |-> cl, security_level |-> lv,
      done |-> FALSE, out |-> None] :
        cl \in CipherLists, lv \in SecurityLevels}
    \cup
    {[op |-> "deep_merge", dict1 |-> d1, dict2 |-> d2, done |-> FALSE, out |-> None] :
        d1 \in MergeArgs, d2 \in MergeArgs}
    \cup
    {[op |-> "is_token_expired", token |-> tok, expiry |-> exp, now |-> t,
      done |-> FALSE, out |-> FALSE] :
        tok \in Tokens, exp \in Expiries, t \in Times}

InitFn ==
    /\ client = [base_api |-> BaseApi, auth |-> TRUE, default_headers |-> DefaultHeaders]
    /\ auth_cfg = [base_api |-> BaseApi, endpoint |-> AuthEndpoint,
                   headers |-> AuthHeaders, payload |-> AuthPayload]
    /\ InitAuthState
    /\ now = 0
    /\ InitCallers
    /\ probe \in ProbeInputs

ApplyDeepMerge ==
    /\ probe.op = "deep_merge"
    /\ ~probe.done
    /\ probe' = [probe EXCEPT !.out = deep_merge(probe.dict1, probe.dict2),
                              !.done = TRUE]
    /\ UNCHANGED <<client, auth_cfg, authState, now, pc, frame, observed, result, wire,
                   transport>>

ApplyIsTokenExpired ==
    /\ probe.op = "is_token_expired"
    /\ ~probe.done
    /\ probe' = [probe EXCEPT !.out = is_token_expired(probe.token, probe.expiry, probe.now),
                              !.done = TRUE]
    /\ UNCHANGED <<client, auth_cfg, authState, now, pc, frame, observed, result, wire,
                   transport>>

ApplySSLCiphers ==
    /\ probe.op = "SSLCiphers"
    /\ ~probe.done
    /\ probe' = [probe EXCEPT !.out = SSLCiphers(probe.cipher_list, probe.security_level),
                              !.done = TRUE]
    /\ UNCHANGED <<client, auth_cfg, authState, now, pc, frame, observed, result, wire,
                   transport>>

NextFn ==
    \/ ApplySSLCiphers
    \/ ApplyDeepMerge
    \/ ApplyIsTokenExpired

SpecFn == InitFn /\ [][NextFn]_vars

(***************************************************************************)
(* Reading a call's events                                                 *)
(***************************************************************************)
Indices(c, kind) == {i \in DOMAIN wire[c] : wire[c][i].ev = kind}
Count(c, kind) == Cardinality(Indices(c, kind))
\* A call of Client.request is in progress or has ended and not been collected.
Running(c) == pc[c] # "idle" /\ wire[c][1].ev = "call"
Args(c) == wire[c][1]
SupportedMethods == {"get", "post"}

ConfigErrors ==
    {RaiseMissingBaseApi, RaiseMissingEndpoint,
     RaiseMissingAuthBaseApi, RaiseMissingAuthEndpoint}
AuthFailures ==
    {RaiseMissingAuthBaseApi, RaiseMissingAuthEndpoint, RaiseAuthError, RaiseKeyError}

\* The value the call's exchange wrote to `field`.
WrittenBy(c, field) ==
    LET i == CHOOSE i \in Indices(c, "set") : wire[c][i].field = field
    IN  wire[c][i].value

(***************************************************************************)
(* C1: in a call that observed an expired token, the token exchange was    *)
(* sent and has completed before the Authorization value is computed and   *)
(* before the outbound GET/POST is dispatched.                             *)
(***************************************************************************)
RefreshPrecedesSend ==
    \A c \in Callers :
        observed[c] = "expired" =>
            \A i \in Indices(c, "get_auth") \cup Indices(c, "send") :
                \E j \in Indices(c, "exchange"), k \in Indices(c, "exchange_done") :
                    j < k /\ k < i

RefreshPrecedesSendWitness ==
    \E c \in Callers :
        /\ observed[c] = "expired"
        /\ Indices(c, "send") # {}
        /\ Indices(c, "get_auth") # {}

(***************************************************************************)
(* C2: a failed Auth.auth leaves token, expiry, token_type and country as  *)
(* they were before the call: a call whose exchange fails has changed none *)
(* of the four attributes.                                                 *)
(***************************************************************************)
FailedAuthChangesNothing ==
    \A c \in Callers :
        (pc[c] = "done" /\ result[c] \in AuthFailures) =>
            \A i \in Indices(c, "set") : ~wire[c][i].changed

(***************************************************************************)
(* C4: a call with a method other than get/post ends in an explicit error  *)
(* (never a returned None) and puts nothing on the network: no token       *)
(* exchange and no outbound request.                                       *)
(***************************************************************************)
UnsupportedMethodRejected ==
    \A c \in Callers :
        (Running(c) /\ Args(c).method \notin SupportedMethods) =>
            /\ result[c] # ReturnNone
            /\ Count(c, "exchange") = 0
            /\ Count(c, "send") = 0

(***************************************************************************)
(* C3: is_token_expired is true exactly when the token is absent, or the   *)
(* expiry is absent, or expiry <= current time (an empty-string token is   *)
(* no token); so it is true at expiry = now and false only when both are   *)
(* present and expiry > now.                                               *)
(***************************************************************************)
Absent(v) == IsNone(v) \/ v = PyStr("")

ExpiredExactlyWhenNotValid ==
    (probe.op = "is_token_expired" /\ probe.done) =>
        (probe.out <=>
            \/ Absent(probe.token)
            \/ Absent(probe.expiry)
            \/ probe.expiry.n <= probe.now)

ExpiredAtBoundaryWitness ==
    /\ probe.op = "is_token_expired"
    /\ probe.done
    /\ probe.token = PyStr("t1")
    /\ probe.expiry = PyNum(probe.now)
    /\ probe.out = TRUE

(***************************************************************************)
(* C5: a call that starts while the token is valid performs no token       *)
(* exchange and sends the cached "<token_type> <token>"; a call performs   *)
(* at most one exchange, and only when it found the token expired.         *)
(***************************************************************************)
CachedAuthorization == PyStr(Format(token_type) \o " " \o Format(token))

ValidTokenReused ==
    \A c \in Callers :
        Running(c) =>
            /\ Count(c, "exchange") <= 1
            /\ Count(c, "exchange") = 1 =>
                  (observed[c] = "expired" /\ Args(c).state # "Valid")
            /\ (/\ observed[c] = "expired"
                /\ result[c] \notin {RaiseMissingAuthBaseApi, RaiseMissingAuthEndpoint}) =>
                  Count(c, "exchange") = 1
            /\ (client.auth /\ Args(c).state = "Valid") =>
                  /\ Count(c, "exchange") = 0
                  /\ Count(c, "set") = 0
                  /\ \A i \in Indices(c, "get_auth") :
                        PyStr(wire[c][i].value) = CachedAuthorization
                  /\ \A i \in Indices(c, "send") :
                        Args(c).headers = None =>
                            wire[c][i].headers =
                                PyDict([Authorization |-> CachedAuthorization])

ValidTokenReusedWitness ==
    \E c \in Callers :
        /\ Running(c)
        /\ client.auth
        /\ Args(c).state = "Valid"
        /\ Count(c, "exchange") = 0
        /\ \E i \in Indices(c, "send") :
              wire[c][i].headers = PyDict([Authorization |-> PyStr("Bearer t1")])

(***************************************************************************)
(* C6: on a client whose controller holds nothing yet, a get with no       *)
(* caller headers that returns a response has performed exactly one token  *)
(* exchange, completed before exactly one outbound GET, and that GET       *)
(* carries Authorization = "<token_type> <token>" with the values that     *)
(* exchange returned.  No such call ever performs a second exchange or     *)
(* sends before its exchange is done.                                      *)
(***************************************************************************)
FirstGetAuthenticates ==
    \A c \in Callers :
        (/\ Running(c)
         /\ client.auth
         /\ Args(c).state = "Unauthenticated"
         /\ Args(c).method = "get"
         /\ Args(c).headers = None) =>
            /\ Count(c, "exchange") <= 1
            /\ Count(c, "send") <= 1
            /\ Count(c, "send") = 1 => Count(c, "exchange_done") = 1
            /\ (pc[c] = "done" /\ result[c] \in {ReturnResponse, RaiseRetryError}) =>
                  /\ Count(c, "exchange") = 1
                  /\ Count(c, "send") = 1
                  /\ \A i \in Indices(c, "exchange"), j \in Indices(c, "send") :
                        /\ i < j
                        /\ wire[c][j].verb = "GET"
                        /\ wire[c][j].url = "https://api.example.com/v1/data"
                        /\ wire[c][j].headers =
                              PyDict([Authorization |->
                                  PyStr(WrittenBy(c, "token_type").s \o " "
                                        \o WrittenBy(c, "token").s)])

FirstGetAuthenticatesWitness ==
    \E c \in Callers :
        /\ Running(c)
        /\ client.auth
        /\ Args(c).state = "Unauthenticated"
        /\ Args(c).method = "get"
        /\ Args(c).headers = None
        /\ pc[c] = "done"
        /\ result[c] = ReturnResponse
        /\ \E j \in Indices(c, "send") :
              wire[c][j].headers = PyDict([Authorization |-> PyStr("MAC t2")])

(***************************************************************************)
(* C7: a request on a client with no base_api, or with an empty or absent  *)
(* endpoint, raises the configuration error with nothing on the network    *)
(* and without touching the controller, expired token or not; Auth.auth    *)
(* with its base_api or endpoint missing raises before its POST is sent.   *)
(***************************************************************************)
ConfigErrorState ==
    \A c \in Callers :
        Running(c) =>
            /\ Absent(client.base_api) => result[c] = RaiseMissingBaseApi
            /\ (~Absent(client.base_api) /\ Absent(Args(c).endpoint)) =>
                  result[c] = RaiseMissingEndpoint
            /\ (observed[c] = "expired" /\ Absent(auth_cfg.base_api)) =>
                  result[c] = RaiseMissingAuthBaseApi
            /\ (observed[c] = "expired" /\ ~Absent(auth_cfg.base_api)
                    /\ Absent(auth_cfg.endpoint)) =>
                  result[c] = RaiseMissingAuthEndpoint
            /\ result[c] \in ConfigErrors =>
                  /\ pc[c] = "done"
                  /\ Count(c, "exchange") = 0
                  /\ Count(c, "send") = 0
                  /\ Count(c, "set") = 0

ConfigErrorStep ==
    \A c \in Callers :
        (result[c] = Pending /\ result'[c] \in ConfigErrors) => UNCHANGED authState

ConfigErrorBeforeNetwork == []ConfigErrorState /\ [][ConfigErrorStep]_vars

ConfigErrorBeforeNetworkWitness ==
    \E c \in Callers :
        /\ Running(c)
        /\ client.auth
        /\ Args(c).state = "Expired"
        /\ Args(c).endpoint = PyStr("")
        /\ result[c] = RaiseMissingEndpoint

(***************************************************************************)
(* C8: a client built without an Auth never performs a token exchange;     *)
(* each of its get/post calls sends exactly one request, to                *)
(* base_api + endpoint, with the caller's headers as given (so with no     *)
(* Authorization header unless the caller supplied one).                   *)
(***************************************************************************)
NoAuthClientNeverRefreshes ==
    ~client.auth =>
        /\ authState = <<None, None, None, None>>
        /\ \A c \in Callers :
              Running(c) =>
                  /\ Count(c, "exchange") = 0
                  /\ Count(c, "get_auth") = 0
                  /\ Count(c, "send") <= 1
                  /\ \A i \in Indices(c, "send") :
                        /\ wire[c][i].headers = Args(c).headers
                        /\ wire[c][i].url = client.base_api.s \o Args(c).endpoint.s
                        /\ wire[c][i].verb = (IF Args(c).method = "get" THEN "GET" ELSE "POST")
                  /\ (/\ pc[c] = "done"
                      /\ Args(c).method \in SupportedMethods
                      /\ ~Absent(client.base_api)
                      /\ ~Absent(Args(c).endpoint)) =>
                        /\ result[c] \in {ReturnResponse, RaiseRetryError}
                        /\ Count(c, "send") = 1

NoAuthClientWitness ==
    \E c \in Callers :
        /\ ~client.auth
        /\ pc[c] = "done"
        /\ Args(c).method = "get"
        /\ Args(c).headers = None
        /\ \E i \in Indices(c, "send") :
              /\ wire[c][i].headers = None
              /\ wire[c][i].url = "https://api.example.com/v1/data"

(***************************************************************************)
(* C9: with several callers sharing one Client/Auth pair, at most one      *)
(* token exchange of the controller is on the network at any time.         *)
(***************************************************************************)
AtMostOneExchangeInFlight ==
    Cardinality({c \in Callers : pc[c] = "auth_wait"}) <= 1

(***************************************************************************)
(* C10: deep_merge is a recursive right-biased merge: a key of only one    *)
(* operand keeps its value; for a key of both, two mappings are merged the *)
(* same way and otherwise the second operand's value wins; a non-empty     *)
(* mapping merged with an empty or absent one, on either side, comes back  *)
(* unchanged; the spec's example gives {a: {x: 1, y: 3, z: 4}}.            *)
(***************************************************************************)
RECURSIVE RightBiasedMerge(_, _, _)
RightBiasedMerge(r, d1, d2) ==
    LET empty1 == d1 = None \/ d1 = EmptyDict
        empty2 == d2 = None \/ d2 = EmptyDict
    IN  IF empty1 /\ empty2 THEN r = None
        ELSE IF empty1 THEN r = d2
        ELSE IF empty2 THEN r = d1
        ELSE /\ IsDict(r)
             /\ DOMAIN r.d = (DOMAIN d1.d) \cup (DOMAIN d2.d)
             /\ \A k \in (DOMAIN d1.d) \ (DOMAIN d2.d) : r.d[k] = d1.d[k]
             /\ \A k \in (DOMAIN d2.d) \ (DOMAIN d1.d) : r.d[k] = d2.d[k]
             /\ \A k \in (DOMAIN d1.d) \cap (DOMAIN d2.d) :
                   IF IsDict(d1.d[k]) /\ IsDict(d2.d[k])
                   THEN RightBiasedMerge(r.d[k], d1.d[k], d2.d[k])
                   ELSE r.d[k] = d2.d[k]

DeepMergeRightBiased ==
    (probe.op = "deep_merge" /\ probe.done) =>
        /\ RightBiasedMerge(probe.out, probe.dict1, probe.dict2)
        /\ (probe.dict1 = Example1 /\ probe.dict2 = Example2) =>
              probe.out = ExampleMerged

DeepMergeExampleWitness ==
    /\ probe.op = "deep_merge"
    /\ probe.done
    /\ probe.dict1 = Example1
    /\ probe.dict2 = Example2
    /\ probe.out = ExampleMerged


(***************************************************************************)
(* C11: on a client with an Auth, the headers sent are                     *)
(* deep_merge({"Authorization": get_auth()}, caller headers): a caller's   *)
(* Authorization header wins, otherwise Authorization is the controller's  *)
(* "<token_type> <token>"; every other caller header goes out unchanged.   *)
(***************************************************************************)
OutboundHeadersAreMerge ==
    \A c \in Callers :
        (Running(c) /\ client.auth) =>
            \A j \in Indices(c, "send") :
                LET h == Args(c).headers
                    sent == wire[c][j].headers
                    own == PyStr(wire[c][CHOOSE i \in Indices(c, "get_auth") : TRUE].value)
                IN  /\ Count(c, "get_auth") = 1
                    /\ own = CachedAuthorization
                    /\ sent = deep_merge(PyDict([Authorization |-> own]), h)
                    /\ IsDict(sent)
                    /\ IF IsNone(h)
                       THEN sent = PyDict([Authorization |-> own])
                       ELSE /\ DOMAIN sent.d = DOMAIN h.d \cup {"Authorization"}
                            /\ \A k \in DOMAIN h.d : sent.d[k] = h.d[k]
                            /\ ~HasKey(h, "Authorization") => sent.d.Authorization = own

OutboundHeadersAreMergeWitness ==
    \E c \in Callers :
        /\ client.auth
        /\ pc[c] = "done"
        /\ Args(c).headers =
              PyDict([Authorization |-> PyStr("Basic mine"), Range |-> PyStr("0-9")])
        /\ \E i \in Indices(c, "get_auth") : wire[c][i].value = "Bearer t1"
        /\ \E j \in Indices(c, "send") :
              wire[c][j].headers =
                  PyDict([Authorization |-> PyStr("Basic mine"), Range |-> PyStr("0-9")])

(***************************************************************************)
(* C12: a request whose transport answers 503, 503 and then 200 is         *)
(* attempted exactly 3 times, with a backoff delay before the second and   *)
(* before the third attempt, and the caller receives the 200; the token    *)
(* exchange and the header merge are not repeated between the attempts.    *)
(* A call therefore never ends on the first or second 503, and one whose   *)
(* transport answered 503, 503, 200 has slept twice and refreshed and      *)
(* merged at most once, before it was sent.                                *)
(***************************************************************************)
Attempts(c) == Len(transport[c].history)

RetriedUntilSuccess ==
    \A c \in Callers :
        (pc[c] = "done" /\ Count(c, "send") = 1) =>
            /\ transport[c].history \notin {<<503>>, <<503, 503>>}
            /\ transport[c].history = <<503, 503, 200>> =>
                  /\ Attempts(c) = 3
                  /\ result[c] = ReturnResponse
                  /\ Len(transport[c].sleeps) = 2
                  /\ \A i \in 1..2 : transport[c].sleeps[i] > 0
                  /\ Count(c, "exchange") <= 1
                  /\ Count(c, "get_auth") <= 1
                  /\ \A i \in Indices(c, "exchange") \cup Indices(c, "get_auth"),
                        j \in Indices(c, "send") : i < j

(***************************************************************************)
(* C13: for every GET or POST the transport sends again only after a       *)
(* response whose status is 429, 500, 502, 503 or 504; a response with any *)
(* other status ends the request and is returned; a request is attempted   *)
(* at most 15 times, and then the call ends with the last response or an   *)
(* error.                                                                  *)
(***************************************************************************)
RetryPolicyBounded ==
    \A c \in Callers :
        Count(c, "send") = 1 =>
            LET seen == transport[c].history
            IN  /\ Attempts(c) <= 15
                /\ \A i \in 1..(Attempts(c) - 1) : seen[i] \in {429, 500, 502, 503, 504}
                /\ (Attempts(c) >= 1 /\ seen[Attempts(c)] \notin {429, 500, 502, 503, 504}) =>
                      (pc[c] = "done" /\ result[c] = ReturnResponse)
                /\ Attempts(c) = 15 => pc[c] = "done"

(***************************************************************************)
(* C14: SSLCiphers is constructed for every integer security_level from 0  *)
(* to 5 and raises for every other integer; it raises when the cipher list *)
(* contains "@SECLEVEL"; in both cases it raises before any TLS context is *)
(* built; when it succeeds, the cipher string is the given list, or        *)
(* "DEFAULT" when none was given, followed by ":@SECLEVEL=<level>".        *)
(***************************************************************************)
SSLCiphersValidates ==
    (probe.op = "SSLCiphers" /\ probe.done) =>
        LET cl == probe.cipher_list
            lv == probe.security_level
            out == probe.out
            hasDirective ==
                /\ IsText(cl)
                /\ \E i \in 1..(Len(cl.t) - 1) : cl.t[i] = "@" /\ cl.t[i + 1] = "SECLEVEL"
            plain == IsNone(cl) \/ (IsText(cl) /\ ~hasDirective)
        IN  /\ hasDirective => (out.raised = "ValueError" /\ ~out.ctx)
            /\ (IsNum(lv) /\ lv.n \notin 0..5) => (out.raised # "" /\ ~out.ctx)
            /\ (IsNum(lv) /\ lv.n \in 0..5 /\ plain) =>
                  /\ out.raised = ""
                  /\ out.ctx
                  /\ out.ciphers.t =
                        (IF IsNone(cl) \/ cl.t = <<>> THEN <<"DEFAULT">> ELSE cl.t)
                        \o <<":", "@", "SECLEVEL", "=">>
                        \o <<CHOOSE d \in {"0", "1", "2", "3", "4", "5"} :
                                \A k \in 0..5 : (lv.n = k) =>
                                    d = <<"0", "1", "2", "3", "4", "5">>[k + 1]>>
            /\ out.raised # "" => ~out.ctx

SSLCiphersValidatesWitness ==
    /\ probe.op = "SSLCiphers"
    /\ probe.done
    /\ probe.cipher_list = PyText(<<>>)
    /\ probe.security_level = PyNum(5)
    /\ probe.out.ciphers = PyText(<<"DEFAULT", ":", "@", "SECLEVEL", "=", "5">>)

(***************************************************************************)
(* C15: when the token exchange inside Client.request fails, the call ends *)
(* with that failure, no GET/POST is sent, the client does not repeat the  *)
(* exchange, and the controller is left in the Unauthenticated or Expired  *)
(* state it was in, so that the next request refreshes again.              *)
(***************************************************************************)
FailedRefreshLeavesState ==
    \A c \in Callers :
        (Running(c) /\ pc[c] = "done" /\ result[c] \in AuthFailures) =>
            /\ Count(c, "send") = 0
            /\ Count(c, "get_auth") = 0
            /\ Count(c, "exchange") <= 1
            /\ Args(c).state \in {"Unauthenticated", "Expired"}
            /\ AuthStateKind = Args(c).state
            /\ NeedsRefresh

(***************************************************************************)
(* C16: Client.request computes the Authorization value only in a valid    *)
(* state: whenever get_auth is called, token and expiry are present and    *)
(* expiry is later than the current time, whatever the exchange answered   *)
(* (an expires_in of zero included).                                       *)
(***************************************************************************)
GetAuthOnlyWhenValid ==
    \A c \in Callers :
        \A i \in Indices(c, "get_auth") : wire[c][i].valid

(***************************************************************************)
(* C17: the controller's state moves only Unauthenticated -> Valid ->      *)
(* Expired -> Valid.  Only a successful Auth.auth changes a field; it sets *)
(* token, token_type and country from the response and expiry to the time *)
(* of the exchange plus expires_in; the state is Expired only once the     *)
(* time has reached expiry; no field is ever set back to absent.           *)
(***************************************************************************)
AuthLifecycle ==
    \A c \in Callers :
        /\ \A i \in Indices(c, "set") : ~IsNone(wire[c][i].value)
        /\ (Running(c) /\ pc[c] = "done") =>
              /\ (\E i \in Indices(c, "set") : wire[c][i].changed) =>
                    Count(c, "exchange_done") = 1
              /\ Count(c, "exchange_done") = 1 =>
                    /\ token = WrittenBy(c, "token")
                    /\ expiry = WrittenBy(c, "expiry")
                    /\ token_type = WrittenBy(c, "token_type")
                    /\ country = WrittenBy(c, "country")
              /\ Count(c, "exchange_done") = 0 =>
                    <<Args(c).state, AuthStateKind>> \in
                        { <<"Unauthenticated", "Unauthenticated">>,
                          <<"Valid", "Valid">>, <<"Valid", "Expired">>,
                          <<"Expired", "Expired">> }
              /\ AuthStateKind = "Expired" => (IsNone(expiry) \/ expiry.n <= now)

(***************************************************************************)
(* C18: with concurrent callers, the four fields of the controller always  *)
(* come from one and the same exchange response, never from a mixture of   *)
(* two: whenever no exchange is in the middle of storing its response, the *)
(* fields are all absent or are the values of a single response.           *)
(***************************************************************************)
Storing(c) == pc[c] \in {"set_token", "set_expiry", "set_token_type", "set_country"}

FromOneResponse(r) ==
    /\ token = r.d.access_token
    /\ token_type = r.d.token_type
    /\ country = r.d.country
    /\ \E t \in 0..MaxTime : expiry = PyNum(t + r.d.expires_in.n)

FieldsFromOneExchange ==
    (\A c \in Callers : ~Storing(c)) =>
        \/ authState = <<None, None, None, None>>
        \/ FromOneResponse(FullResponse1)
        \/ FromOneResponse(FullResponse2)

(***************************************************************************)
(* C19: no sequence of calls and refreshes changes the client's base_api   *)
(* or default headers, or the controller's base_api, endpoint, header      *)
(* template or payload template.  A refresh given override headers or an   *)
(* override payload uses them for that exchange only; with an absent or    *)
(* empty override the exchange uses the stored template.                   *)
(***************************************************************************)
ExchangeUsesTemplates ==
    \A c \in Callers :
        \A i \in Indices(c, "exchange") :
            LET sent == wire[c][i]
                call == wire[c][1]
                direct == call.ev = "auth_call"
            IN  /\ sent.url = "https://api.example.com/auth/token"
                /\ sent.headers =
                      (IF direct /\ call.headers \notin {None, EmptyDict}
                       THEN call.headers ELSE AuthHeaders)
                /\ sent.data =
                      (IF direct /\ call.payload \notin {None, EmptyDict}
                       THEN call.payload ELSE AuthPayload)

ConfigurationKept ==
    /\ client.default_headers = DefaultHeaders
    /\ client.auth =>
          /\ auth_cfg.headers = AuthHeaders
          /\ auth_cfg.payload = AuthPayload

ConfigurationFrame ==
    /\ [](ExchangeUsesTemplates /\ ConfigurationKept)
    /\ [][client' = client /\ auth_cfg' = auth_cfg]_vars

ConfigurationFrameWitness ==
    \E c \in Callers :
        /\ pc[c] = "done"
        /\ result[c] = ReturnAuthResponse
        /\ wire[c][1].ev = "auth_call"
        /\ wire[c][1].headers = PyDict([Accept |-> PyStr("text/plain")])
        /\ wire[c][1].payload = EmptyDict
        /\ wire[c][2].headers = PyDict([Accept |-> PyStr("text/plain")])
        /\ wire[c][2].data = AuthPayload
        /\ auth_cfg.headers = AuthHeaders

====
